---- MODULE Spec2Model ----
(***************************************************************************)
(* Model of src/ctrl.py: the fan controller `ctrl`, the IPMI `Server`      *)
(* wrapper it drives, and the polling loop of `main`.                      *)
(*                                                                         *)
(* Numbers: Python floats are modelled as exact rationals in fixed point.  *)
(* Every fan percentage, temperature average and wattage that the code     *)
(* holds as a float is stored multiplied by Scale; core temperatures, CPU  *)
(* utilisation and the watt reading are integers.  Scale is chosen so that *)
(* every division the code performs on these inputs is exact.              *)
(***************************************************************************)
EXTENDS Integers, Sequences, FiniteSets, TLC

\* ---------------------------------------------------------------- bounds
\* Number of iterations of the `while True` loop of main that are explored.
MaxCycles == 2

\* Iterations explored with the wide range of CPU utilisation (SpecWide).
WideCycles == 1

\* Iterations explored under a constant load (SpecSteady).
SteadyCycles == 10

\* Calls of get_fan_speed explored, and sensor lines in one response (SpecQuery).
MaxQueries == 2
MaxFanLines == 2

\* ------------------------------------------------------ program constants
TrendLen == 8
NCores == 8
CoresPerSocket == 4
InitFan == 10
TargetTemp == 55
EmergencyThreshold == 68
EmergencyStep == 5
MaxAdj == 3
FanMin == 1
FanMax == 100
CpuFloor == 30
CpuCeil == 160
PassiveWatts == 50
WattsPerPct == 10
FinetuneBand == 5

\* Fixed-point unit: 1/Scale.  Averages over 4 or 8 cores, the mean of the
\* 8 trend entries, the finetune divisor 2, 1.6 = 16/10 and the /10 of the
\* power term all divide exactly.
Scale == TrendLen * NCores * 2 * 25

\* ------------------------------------------------------------ input sets
\* Per-core temperature a socket may report (all its cores alike).
CoreTemps == {40, 55, 56, 70}

\* What one coretemp chart yields: no "Core" label, or one value per core.
SocketReadings == {<<>>} \cup {[i \in 1..CoresPerSocket |-> t] : t \in CoreTemps}

\* Aggregate of the system.cpu chart.
CpuUtils == {0, 120}

\* Aggregates explored by SpecWide: below zero, around the 30 W floor
\* (18.75 %), around the 160 W ceiling (100 %), and beyond.
CpuUtilsWide == {-20, -1, 0, 18, 19, 50, 100, 101, 120, 200}

\* Watts printed on the "System Level" line.
WattReadings == {80, 250}

NoneStr == "None"

\* Keyword arguments handed to Server(...): none, or the three of main.
\* Process environment: nothing set, or IDRAC_HOST alone.
KwargSets ==
    { [host |-> NoneStr, username |-> NoneStr, password |-> NoneStr],
      [host |-> "192.168.1.254", username |-> "root", password |-> "123456"] }

EnvSets ==
    { [IDRAC_HOST |-> NoneStr, IDRAC_USERNAME |-> NoneStr, IDRAC_PASSWORD |-> NoneStr],
      [IDRAC_HOST |-> "idrac.lan", IDRAC_USERNAME |-> NoneStr, IDRAC_PASSWORD |-> NoneStr] }

\* One sensor line of the `sdr type fan` response: the digit run of its
\* reading and whether " RPM" follows it.
FanLines ==
    { [digits |-> <<9, 0, 0, 0>>, unit |-> "RPM"],
      [digits |-> <<1, 0, 0, 0, 0>>, unit |-> "RPM"],
      [digits |-> <<3, 6, 0, 0>>, unit |-> "RPM"],
      [digits |-> <<7, 2, 0>>, unit |-> "RPM"],
      [digits |-> <<8, 0>>, unit |-> "RPM"],
      [digits |-> <<1, 2, 0, 0, 0>>, unit |-> "Watts"] }

\* Responses of up to MaxFanLines lines.
FanResponses == UNION {[1..n -> FanLines] : n \in 0..MaxFanLines}

\* Outcome of subprocess.check_output for one ipmitool invocation.
\* "nonzero": CalledProcessError (caught in send, which then leaves __out unset);
\* "notfound": ipmitool is not installed (FileNotFoundError, not caught).
CmdOutcomes == {"ok", "nonzero", "notfound"}

\* Shape of the `sdr type current` response, when the command succeeds.
PowerShapes == {"watts", "noline", "garbage"}

\* ---------------------------------------------------------------- state
VARIABLES
    pc,               \* position of the process: construct/fetch/inject/step/crashed/fatal
    err,              \* exception that ended the process, "none" while it runs
    kwargs,           \* arguments of ctrl(host_m, uname, psw) / Server(...)
    environ,          \* os.environ
    server,           \* Server.__host / __username / __password
    data,             \* ctrl.data
    prev,             \* ctrl.prev            (x Scale)
    thrend,           \* ctrl.thrend          (x Scale)
    curfan,           \* ctrl.curfan          (x Scale)
    curpower,         \* ctrl.curpower: [isNone, val]
    cpu_power_level,  \* ctrl.cpu_power_level (x Scale)
    cores,            \* main: local `cores`
    cpu_util,         \* main: local `cpu_util`
    sent,             \* management commands issued so far, oldest first
    cycle,            \* loop iterations started
    fan_out,          \* lines of the last `sdr type fan` response
    fan_speed         \* value last returned by get_fan_speed

vars == <<pc, err, kwargs, environ, server, data, prev, thrend, curfan, curpower,
          cpu_power_level, cores, cpu_util, sent, cycle, fan_out, fan_speed>>

queryState == <<fan_out, fan_speed>>

ctrlState == <<data, prev, thrend, curfan, curpower, cpu_power_level>>

\* --------------------------------------------------------------- helpers
None == [isNone |-> TRUE, val |-> 0]
Some(v) == [isNone |-> FALSE, val |-> v]

Min(a, b) == IF a < b THEN a ELSE b
Max(a, b) == IF a > b THEN a ELSE b
Abs(a) == IF a < 0 THEN -a ELSE a

RECURSIVE Sum(_)
Sum(s) == IF Len(s) = 0 THEN 0 ELSE Head(s) + Sum(Tail(s))

Last(s) == s[Len(s)]

\* numpy ndarray.any(): some element is non-zero.
AnyNonZero(d) == \E i \in DOMAIN d : d[i] # 0

\* A Python bool compared with a number counts as 0 or 1.
BoolAsInt(b) == IF b THEN 1 ELSE 0

\* Variant: round half up instead of truncating.
IntRound(x) == (2 * x + Scale) \div (2 * Scale)

\* int(x) for a float x >= 0: truncation.
IntOf(x) == x \div Scale

HexChar == <<"0", "1", "2", "3", "4", "5", "6", "7",
             "8", "9", "a", "b", "c", "d", "e", "f">>

RECURSIVE HexDigits(_)
HexDigits(n) ==
    IF n < 16 THEN <<HexChar[n + 1]>>
    ELSE Append(HexDigits(n \div 16), HexChar[(n % 16) + 1])

\* hex(n): sign, "0x", then the digits, no padding.
Hex(n) ==
    IF n < 0 THEN <<"-", "0", "x">> \o HexDigits(-n)
    ELSE <<"0", "x">> \o HexDigits(n)

\* ------------------------------------------------------ Server.__init__
Resolve(kw, envval, default) ==
    IF kw # NoneStr THEN kw
    ELSE IF envval # NoneStr THEN envval
    ELSE default

ResolveHost(kw, env) == Resolve(kw.host, env.IDRAC_HOST, NoneStr)
ResolveUsername(kw, env) == Resolve(kw.username, env.IDRAC_USERNAME, "root")
ResolvePassword(kw, env) == Resolve(kw.password, env.IDRAC_PASSWORD, "calvin")

ServerInit(kw, env) ==
    [host |-> ResolveHost(kw, env),
     username |-> ResolveUsername(kw, env),
     password |-> ResolvePassword(kw, env)]

\* Variant: `and` in place of `or` in the test of line 67.
CredentialsMissingAll(s) ==
    s.host = NoneStr /\ s.username = NoneStr /\ s.password = NoneStr

CredentialsMissing(s) ==
    s.host = NoneStr \/ s.username = NoneStr \/ s.password = NoneStr

\* --------------------------------------------------------- ctrl.__init__
\* Variant: last byte 0x01 (automatic mode) in place of 0x00 at line 167.
ManualCmdWrongByte(ok) == [op |-> "auto", pct |-> 0, hex |-> <<>>, ok |-> ok]

ManualCmd(ok) == [op |-> "manual", pct |-> 0, hex |-> <<>>, ok |-> ok]
PowerCmd(ok) == [op |-> "power", pct |-> 0, hex |-> <<>>, ok |-> ok]
FanCmd(p, ok) == [op |-> "fan", pct |-> p, hex |-> Hex(p), ok |-> ok]
AutoCmd(ok) == [op |-> "auto", pct |-> 0, hex |-> <<>>, ok |-> ok]

\* Exception leaving do_cmd for a failed invocation: `out` reads the unset
\* __out after the caught CalledProcessError; FileNotFoundError propagates.
CmdError(out) == IF out = "nonzero" THEN "AttributeError" ELSE "FileNotFoundError"

Init ==
    /\ pc = "construct"
    /\ err = "none"
    /\ kwargs \in KwargSets
    /\ environ \in EnvSets
    /\ server = [host |-> NoneStr, username |-> NoneStr, password |-> NoneStr]
    /\ data = [i \in 1..NCores |-> 0]
    /\ prev = 0
    /\ thrend = [i \in 1..TrendLen |-> 0]
    /\ curfan = InitFan * Scale
    /\ curpower = Some(0)
    /\ cpu_power_level = 0
    /\ cores = <<>>
    /\ cpu_util = 0
    /\ sent = <<>>
    /\ cycle = 0
    /\ fan_out = <<>>
    /\ fan_speed = 0

\* c = ctrl(host, username, password): Server(...) then the manual-mode command.
Construct ==
    /\ pc = "construct"
    /\ \E out \in CmdOutcomes :
         LET s == ServerInit(kwargs, environ) IN
         /\ server' = s
         /\ IF CredentialsMissing(s)
            THEN /\ pc' = "fatal"
                 /\ err' = "ValueError"
                 /\ sent' = sent
            ELSE /\ sent' = Append(sent, ManualCmd(out = "ok"))
                 /\ IF out = "ok"
                    THEN pc' = "fetch" /\ err' = err
                    ELSE pc' = "crashed" /\ err' = CmdError(out)
    /\ UNCHANGED <<kwargs, environ, ctrlState, cores, cpu_util, cycle, queryState>>

\* ------------------------------------------------------------------ main
\* Variant: the loop body calls c.step() without c.inject(...).
FetchSkipInject ==
    /\ pc = "fetch"
    /\ cycle < MaxCycles
    /\ \E s1 \in SocketReadings, s0 \in SocketReadings, u \in CpuUtils :
         /\ cores' = s1 \o s0
         /\ cpu_util' = u
    /\ pc' = "step"
    /\ cycle' = cycle + 1
    /\ UNCHANGED <<err, kwargs, environ, server, ctrlState, sent, queryState>>

\* One pass over the three get_data calls of the loop body.
Fetch ==
    /\ pc = "fetch"
    /\ cycle < MaxCycles
    /\ \E s1 \in SocketReadings, s0 \in SocketReadings, u \in CpuUtils :
         /\ cores' = s1 \o s0
         /\ cpu_util' = u
    /\ pc' = "inject"
    /\ cycle' = cycle + 1
    /\ UNCHANGED <<err, kwargs, environ, server, ctrlState, sent, queryState>>

\* ----------------------------------------------------------- ctrl.inject
\* Variant: the max(30, ...) of line 171 left out.
CpuPowerLevelNoFloor(u) == Min((u * 16 * Scale) \div 10, CpuCeil * Scale)

CpuPowerLevel(u) ==
    Min(Max(CpuFloor * Scale, (u * 16 * Scale) \div 10), CpuCeil * Scale)

Inject ==
    /\ pc = "inject"
    /\ \E out \in CmdOutcomes, shape \in PowerShapes, w \in WattReadings :
         /\ sent' = Append(sent, PowerCmd(out = "ok"))
         /\ IF out # "ok"
            THEN /\ pc' = "crashed"
                 /\ err' = CmdError(out)
                 /\ UNCHANGED ctrlState
            ELSE IF shape = "garbage"
            THEN /\ pc' = "crashed"
                 /\ err' = "ValueError"
                 /\ UNCHANGED ctrlState
            ELSE /\ curpower' = IF shape = "noline" THEN None ELSE Some(w)
                 /\ cpu_power_level' = CpuPowerLevel(cpu_util)
                 /\ data' = cores
                 /\ pc' = "step"
                 /\ err' = err
                 /\ UNCHANGED <<prev, thrend, curfan>>
    /\ UNCHANGED <<kwargs, environ, server, cores, cpu_util, cycle, queryState>>

\* ------------------------------------------------------------- ctrl.run
\* Variant: the max(..., 1) of line 177 left out.
ClampUpperOnly(f) == Min(f, FanMax * Scale)

Clamp(f) == Min(Max(f, FanMin * Scale), FanMax * Scale)

\* ------------------------------------------------------------ ctrl.step
AvgTemp(d) == (Sum(d) * Scale) \div Len(d)

TrendAvg(t) == Sum(t) \div Len(t)

Emergency(d) == BoolAsInt(AnyNonZero(d)) > EmergencyThreshold

Delta(avg) == avg - TargetTemp * Scale

Finetune(delta) == IF Abs(delta) > FinetuneBand * Scale THEN 1 ELSE 2

\* Variant: the min(..., 3) of line 198 left out.
DeltaAdjUncapped(delta, tdelta) == Abs(delta - tdelta) \div Finetune(delta)

DeltaAdj(delta, tdelta) ==
    Min(Abs(delta - tdelta) \div Finetune(delta), MaxAdj * Scale)

\* Variant: the two branches of lines 200-203 swapped.
TempAdjustInverted(fan, avg, t) ==
    LET delta == Delta(avg) IN
    IF delta > 0
    THEN fan - DeltaAdj(delta, TrendAvg(t))
    ELSE fan + DeltaAdj(delta, TrendAvg(t))

\* curfan after the else branch (lines 190-203) for average temperature avg.
TempAdjust(fan, avg, t) ==
    LET delta == Delta(avg) IN
    IF delta > 0
    THEN fan + DeltaAdj(delta, TrendAvg(t))
    ELSE fan - DeltaAdj(delta, TrendAvg(t))

\* curfan after the if/else of lines 187-203.
TempTerm(fan, d, t) ==
    IF Emergency(d)
    THEN fan + EmergencyStep * Scale
    ELSE TempAdjust(fan, AvgTemp(d), t)

RestPower(p, cpl) == Min(0, p * Scale - PassiveWatts * Scale - cpl)

PowerTerm(fan, p, cpl) == fan + RestPower(p, cpl) \div WattsPerPct

\* Variant: line 213 left out, the list grows.
PushTrendNoPop(t, delta) == Append(t, delta)

\* Variant: pop() in place of pop(0) at line 213.
PushTrendPopLast(t, delta) == SubSeq(Append(t, delta), 1, Len(t))

PushTrend(t, delta) == Tail(Append(t, delta))

Step ==
    /\ pc = "step"
    /\ IF Len(data) = 0
       THEN \* line 182: division by len(self.data) = 0
            /\ pc' = "crashed"
            /\ err' = "ZeroDivisionError"
            /\ UNCHANGED <<ctrlState, sent>>
       ELSE LET fanT == TempTerm(curfan, data, thrend) IN
            IF curpower.isNone
            THEN \* line 206: None - 50
                 /\ curfan' = fanT
                 /\ pc' = "crashed"
                 /\ err' = "TypeError"
                 /\ UNCHANGED <<data, prev, thrend, curpower, cpu_power_level, sent>>
            ELSE LET fanC == Clamp(PowerTerm(fanT, curpower.val, cpu_power_level)) IN
                 \E out \in CmdOutcomes :
                   /\ curfan' = fanC
                   /\ sent' = Append(sent, FanCmd(IntOf(fanC), out = "ok"))
                   /\ IF out # "ok"
                      THEN /\ pc' = "crashed"
                           /\ err' = CmdError(out)
                           /\ UNCHANGED <<prev, thrend>>
                      ELSE IF Emergency(data)
                      THEN \* line 212: `delta` was never bound
                           /\ prev' = AvgTemp(data)
                           /\ pc' = "crashed"
                           /\ err' = "NameError"
                           /\ UNCHANGED thrend
                      ELSE /\ prev' = AvgTemp(data)
                           /\ thrend' = PushTrend(thrend, Delta(AvgTemp(data)))
                           /\ pc' = "fetch"
                           /\ err' = err
                   /\ UNCHANGED <<data, curpower, cpu_power_level>>
    /\ UNCHANGED <<kwargs, environ, server, cores, cpu_util, cycle, queryState>>

Next == Construct \/ Fetch \/ Inject \/ Step

Spec == Init /\ [][Next]_vars

\* The loop body with both sockets alike and the system.cpu aggregate drawn
\* from the wide range.
FetchWide ==
    /\ pc = "fetch"
    /\ cycle < WideCycles
    /\ \E s \in SocketReadings \ {<<>>}, u \in CpuUtilsWide :
         /\ cores' = s \o s
         /\ cpu_util' = u
    /\ pc' = "inject"
    /\ cycle' = cycle + 1
    /\ UNCHANGED <<err, kwargs, environ, server, ctrlState, sent, queryState>>

NextWide == Construct \/ FetchWide \/ Inject \/ Step

SpecWide == Init /\ [][NextWide]_vars

\* The loop body under a constant load: the charts yield in every iteration
\* what they yielded in the first, and the CPU is idle.
FetchSteady ==
    /\ pc = "fetch"
    /\ cycle < SteadyCycles
    /\ IF cycle = 0
       THEN \E s1 \in SocketReadings, s0 \in SocketReadings : cores' = s1 \o s0
       ELSE cores' = cores
    /\ cpu_util' = 0
    /\ pc' = "inject"
    /\ cycle' = cycle + 1
    /\ UNCHANGED <<err, kwargs, environ, server, ctrlState, sent, queryState>>

\* ------------------------------------------------- Server.get_fan_speed
FanQueryCmd(ok) == [op |-> "fanquery", pct |-> 0, hex |-> <<>>, ok |-> ok]

\* re.findall(r'(\d{3,})(?= RPM)', out): the digit runs of three or more
\* digits that " RPM" follows, in the order of the response.
RECURSIVE FindRpm(_)
FindRpm(lines) ==
    IF Len(lines) = 0 THEN <<>>
    ELSE LET l == Head(lines) IN
         IF Len(l.digits) >= 3 /\ l.unit = "RPM"
         THEN <<l.digits>> \o FindRpm(Tail(lines))
         ELSE FindRpm(Tail(lines))

\* a < b for two str of digits: character by character, a proper prefix first.
RECURSIVE StrLess(_, _)
StrLess(a, b) ==
    IF Len(b) = 0 THEN FALSE
    ELSE IF Len(a) = 0 THEN TRUE
    ELSE IF Head(a) # Head(b) THEN Head(a) < Head(b)
    ELSE StrLess(Tail(a), Tail(b))

\* max(r) for a non-empty list of str: the first greatest element.
RECURSIVE StrMax(_)
StrMax(r) ==
    IF Len(r) = 1 THEN r[1]
    ELSE LET m == StrMax(SubSeq(r, 1, Len(r) - 1)) IN
         IF StrLess(m, Last(r)) THEN Last(r) ELSE m

\* int(s) for a str of decimal digits.
RECURSIVE DigitsToInt(_)
DigitsToInt(d) ==
    IF Len(d) = 0 THEN 0
    ELSE 10 * DigitsToInt(SubSeq(d, 1, Len(d) - 1)) + Last(d)

\* Lines 151-154.
FanSpeedOf(lines) ==
    LET r == FindRpm(lines) IN
    IF Len(r) = 0 THEN 0 ELSE DigitsToInt(StrMax(r))

GetFanSpeed ==
    /\ pc = "fetch"
    /\ Len(sent) <= MaxQueries
    /\ \E out \in CmdOutcomes, lines \in FanResponses :
         /\ sent' = Append(sent, FanQueryCmd(out = "ok"))
         /\ IF out # "ok"
            THEN /\ pc' = "crashed"
                 /\ err' = CmdError(out)
                 /\ UNCHANGED queryState
            ELSE /\ fan_out' = lines
                 /\ fan_speed' = FanSpeedOf(lines)
                 /\ pc' = pc
                 /\ err' = err
    /\ UNCHANGED <<kwargs, environ, server, ctrlState, cores, cpu_util, cycle>>

NextQuery == Construct \/ GetFanSpeed

SpecQuery == Init /\ [][NextQuery]_vars

NextSteady == Construct \/ FetchSteady \/ Inject \/ Step

SpecSteady == Init /\ [][NextSteady]_vars

\* ================================================================ claims
MaxOf(d) == CHOOSE m \in {d[i] : i \in DOMAIN d} : \A j \in DOMAIN d : d[j] <= m

\* The process is inside the polling loop (constructed, not terminated).
Running == pc \in {"fetch", "inject", "step"}

\* This transition is a step that handed a percentage to set_fan_speed_manual.
Dispatches == pc = "step" /\ Len(sent') = Len(sent) + 1

\* This transition is a step that ran to its last line.
Completes == pc = "step" /\ pc' = "fetch"

\* The state right after a completed step.
AfterStep == pc = "fetch" /\ cycle > 0

C2_EmergencyRamp ==
    [][(Dispatches /\ Len(data) > 0 /\ MaxOf(data) > EmergencyThreshold)
         => Last(sent').pct = IntOf(Clamp(curfan + EmergencyStep * Scale))]_vars

\* C3: the power term only adds cooling: the fan percentage after a step,
\* and the percentage dispatched, are never below what the temperature
\* term alone would have produced.
C3_PowerOnlyAddsCooling ==
    [][Dispatches =>
         /\ curfan' >= Clamp(TempTerm(curfan, data, thrend))
         /\ Last(sent').pct >= IntOf(Clamp(TempTerm(curfan, data, thrend)))]_vars

\* C4: a failed management command (power query or fan-speed set) in a
\* cycle does not end the polling loop.
C4_CommandFailureAbsorbed ==
    \A i \in DOMAIN sent :
      (sent[i].op \in {"power", "fan"} /\ ~sent[i].ok) => Running

\* C5: whenever the loop has stopped after manual mode was entered, the
\* last management command sent is the automatic-fan-mode command.
C5_AutoRestoredOnExit ==
    (pc = "crashed" /\ \E i \in DOMAIN sent : sent[i] = ManualCmd(TRUE))
      => Last(sent) = AutoCmd(TRUE)

\* C6: a cycle whose fetch yielded no core temperature leaves curfan, prev
\* and thrend alone, dispatches nothing and goes on to the next cycle.
C6_EmptyTelemetrySkipped ==
    [][(pc = "step" /\ cores = <<>>)
         => (pc' = "fetch" /\ UNCHANGED <<curfan, prev, thrend, sent>>)]_vars

\* Averages the telemetry explored can produce.
AvgSet == {AvgTemp(s1 \o s0) : s1 \in SocketReadings \ {<<>>}, s0 \in SocketReadings}

\* curfan after lines 190-210 for average temperature avg, from this state.
FanFor(avg) ==
    Clamp(PowerTerm(TempAdjust(curfan, avg, thrend), curpower.val, cpu_power_level))

\* C7: from one controller state, a step with avgTemp above target never
\* yields a lower fan percentage, stored or dispatched, than the step with
\* avgTemp equal to target.
C7_MonotoneInTemperature ==
    (pc = "step" /\ ~curpower.isNone) =>
      \A a \in AvgSet :
        a > TargetTemp * Scale =>
          /\ FanFor(a) >= FanFor(TargetTemp * Scale)
          /\ IntOf(FanFor(a)) >= IntOf(FanFor(TargetTemp * Scale))

\* A step about to run above target, after a cycle that left a non-zero
\* trend, whose result is strictly above the at-target result.
C7_Witness ==
    /\ pc = "step"
    /\ ~curpower.isNone
    /\ Len(data) > 0
    /\ TrendAvg(thrend) # 0
    /\ AvgTemp(data) > TargetTemp * Scale
    /\ IntOf(FanFor(AvgTemp(data))) > IntOf(FanFor(TargetTemp * Scale))

\* C8: the trend buffer always has 8 entries, and every completed step
\* drops the oldest and appends avgTemp - target, the other 7 keeping their
\* order; also when a core is above the emergency threshold.
C8_TrendFifo ==
    [][/\ Len(thrend) = TrendLen
       /\ Len(thrend') = TrendLen
       /\ Completes =>
            /\ \A i \in 1..(TrendLen - 1) : thrend'[i] = thrend[i + 1]
            /\ thrend'[TrendLen] = (Sum(data) * Scale) \div Len(data) - TargetTemp * Scale]_vars

\* After a second completed step with a core above 68: the newest entry is
\* this cycle's delta and the one before it is the first cycle's.
C8_Witness ==
    /\ AfterStep
    /\ cycle = 2
    /\ MaxOf(data) > EmergencyThreshold
    /\ thrend[TrendLen] = Delta(AvgTemp(data))
    /\ thrend[TrendLen - 1] # 0
    /\ thrend[TrendLen - 1] # thrend[TrendLen]

\* The cycle of the worked example: eight cores at 56, 80 W, 30 W CPU estimate,
\* fan at 10, trend buffer all zero.
ExampleBefore ==
    /\ pc = "step"
    /\ data = [i \in 1..NCores |-> 56]
    /\ thrend = [i \in 1..TrendLen |-> 0]
    /\ curpower = Some(80)
    /\ cpu_power_level = 30 * Scale
    /\ curfan = 10 * Scale

\* C9 as stated: the dispatched integer is the clamped curfan rounded to the
\* nearest integer, and the worked example dispatches 11.
C9_RoundedToNearest ==
    [][Dispatches =>
         /\ 2 * Abs(Last(sent').pct * Scale - curfan') <= Scale
         /\ ExampleBefore => Last(sent').pct = 11]_vars

\* C9 amended: the dispatched integer is the clamped curfan truncated; in
\* the worked example the temperature adjustment is 0.5, the power term 0,
\* curfan becomes 10.5 and 10 is dispatched.
C9_Truncated ==
    [][Dispatches =>
         /\ Last(sent').pct * Scale <= curfan'
         /\ curfan' < (Last(sent').pct + 1) * Scale
         /\ ExampleBefore =>
              /\ 2 * (TempTerm(curfan, data, thrend) - curfan) = Scale
              /\ RestPower(curpower.val, cpu_power_level) = 0
              /\ 2 * curfan' = 21 * Scale
              /\ Last(sent').pct = 10]_vars

\* The state the worked example ends in.
C9_Witness ==
    /\ AfterStep
    /\ cycle = 1
    /\ data = [i \in 1..NCores |-> 56]
    /\ curpower = Some(80)
    /\ cpu_power_level = 30 * Scale
    /\ 2 * curfan = 21 * Scale
    /\ Last(sent) = FanCmd(10, TRUE)

HostAvailable == kwargs.host # NoneStr \/ environ.IDRAC_HOST # NoneStr

\* C10: with no host from the argument or IDRAC_HOST, construction fails
\* before any management command is sent; with a host it never fails for
\* credentials, a missing username or password falling back to root / calvin.
C10_ConfigError ==
    pc # "construct" =>
      /\ ~HostAvailable => (pc = "fatal" /\ err = "ValueError" /\ sent = <<>>)
      /\ HostAvailable =>
           /\ pc # "fatal"
           /\ Len(sent) > 0 /\ sent[1].op = "manual"
           /\ (kwargs.username = NoneStr /\ environ.IDRAC_USERNAME = NoneStr)
                => server.username = "root"
           /\ (kwargs.password = NoneStr /\ environ.IDRAC_PASSWORD = NoneStr)
                => server.password = "calvin"

\* Construction attempted with no host anywhere: stopped, nothing sent.
C10_Witness ==
    /\ pc = "fatal"
    /\ ~HostAvailable
    /\ sent = <<>>


\* C11: cycles are strictly sequential: after the manual-mode command the
\* commands alternate power query, fan dispatch, one of each per cycle; a
\* cycle's commands are issued only after those of the cycle before it have
\* returned, and nothing is issued after a command that failed.
C11_SequentialCycles ==
    /\ \A i \in DOMAIN sent :
         /\ i >= 2 => sent[i].op = (IF i % 2 = 0 THEN "power" ELSE "fan")
         /\ i < Len(sent) => sent[i].ok
    /\ pc = "inject" => Len(sent) = 2 * cycle - 1
    /\ pc = "step" => Len(sent) = 2 * cycle
    /\ pc = "fetch" => Len(sent) = 2 * cycle + 1

\* Two whole cycles done: manual, power, fan, power, fan.
C11_Witness ==
    /\ AfterStep
    /\ cycle = 2
    /\ Len(sent) = 5
    /\ sent[4].op = "power"
    /\ sent[5].op = "fan"

\* C12: when the fan-speed dispatch of a cycle fails, curfan, prev and
\* thrend keep the values they had before that cycle's step.
C12_FailedDispatchRetainsState ==
    [][(Dispatches /\ ~Last(sent').ok) => UNCHANGED <<curfan, prev, thrend>>]_vars

\* C13: a power-query response without a 'System Level' line, or with an
\* unparsable watt field, crashes neither inject nor the following step,
\* leaves the controller state as it was, and polling goes on.
C13_BadPowerResponseRecoverable ==
    [][/\ (pc = "inject" /\ Last(sent').ok) => pc' # "crashed"
       /\ (pc = "step" /\ Len(data) > 0 /\ curpower.isNone) =>
            (pc' = "fetch" /\ UNCHANGED <<curfan, prev, thrend>>)]_vars

\* C14: in a step with no core above 68 the temperature term moves curfan
\* by exactly min(|delta - trendAvg| / finetune, 3), with
\* delta = avgTemp - target, trendAvg the mean of the 8 entries before the
\* push, finetune 1 if |delta| > 5 else 2; up when delta > 0, down
\* otherwise; so by at most 3 points.
C14_TemperatureTerm ==
    [][(pc = "step" /\ Len(data) > 0 /\ MaxOf(data) <= EmergencyThreshold) =>
         LET n == Len(data)
             \* all quantities below are multiplied by 2 * 8 * n
             delta16 == 16 * (Sum(data) * Scale - n * TargetTemp * Scale)
             trend16 == 2 * n * Sum(thrend)
             big == Abs(delta16) > 16 * n * FinetuneBand * Scale
             raw16 == IF big THEN Abs(delta16 - trend16)
                      ELSE Abs(delta16 - trend16) \div 2
             adj16 == IF raw16 < 16 * n * MaxAdj * Scale THEN raw16
                      ELSE 16 * n * MaxAdj * Scale
             temp16 == IF delta16 > 0 THEN 16 * n * curfan + adj16
                       ELSE 16 * n * curfan - adj16
             rest10 == IF curpower.val * Scale - PassiveWatts * Scale - cpu_power_level < 0
                       THEN curpower.val * Scale - PassiveWatts * Scale - cpu_power_level
                       ELSE 0
         IN /\ Abs(temp16 - 16 * n * curfan) <= 16 * n * MaxAdj * Scale
            /\ (pc' = "crashed" /\ err' = "TypeError") => 16 * n * curfan' = temp16
            /\ Dispatches =>
                 LET full160 == 10 * temp16 + 16 * n * rest10 IN
                 160 * n * curfan' =
                   (IF full160 < 160 * n * FanMin * Scale THEN 160 * n * FanMin * Scale
                    ELSE IF full160 > 160 * n * FanMax * Scale THEN 160 * n * FanMax * Scale
                    ELSE full160)]_vars

\* Second cycle at eight cores of 56 after a first one: trendAvg = 1/8,
\* delta = 1, finetune 2, so the fan went from 10.5 to 10.9375.
C14_Witness ==
    /\ AfterStep
    /\ cycle = 2
    /\ data = [i \in 1..NCores |-> 56]
    /\ thrend[TrendLen - 1] = Scale
    /\ thrend[TrendLen] = Scale
    /\ 16 * curfan = 175 * Scale

\* C17: the manual-mode command is sent once, as the first management
\* command, at construction; every duty-cycle command comes after it.
C17_ManualModeFirst ==
    /\ \A i \in DOMAIN sent : (sent[i].op = "manual") <=> (i = 1)
    /\ \A i \in DOMAIN sent :
         sent[i].op = "fan" => \E j \in 1..(i - 1) : sent[j] = ManualCmd(TRUE)
    /\ Running => Len(sent) >= 1

\* Two duty-cycle commands sent, the one manual-mode command before both.
C17_Witness ==
    /\ AfterStep
    /\ cycle = 2
    /\ sent[1] = ManualCmd(TRUE)
    /\ sent[3].op = "fan"
    /\ sent[5].op = "fan"


\* C15: after inject, for any CPU utilisation (zero, negative, above 100),
\* cpu_power_level is clamp(cpu_util * 1.6, 30, 160), hence within [30, 160].
C15_CpuPowerClamped ==
    pc = "step" =>
      /\ CpuFloor * Scale <= cpu_power_level
      /\ cpu_power_level <= CpuCeil * Scale
      /\ 10 * cpu_power_level =
           (IF 16 * cpu_util < 10 * CpuFloor THEN 10 * CpuFloor * Scale
            ELSE IF 16 * cpu_util > 10 * CpuCeil THEN 10 * CpuCeil * Scale
            ELSE 16 * cpu_util * Scale)

\* inject has run on a negative utilisation: the estimate sits on the floor.
C15_Witness ==
    /\ pc = "step"
    /\ cpu_util < 0
    /\ cpu_power_level = CpuFloor * Scale

\* C18: with the same average temperature in every cycle and a zero power
\* term, from the 9th cycle on the trend buffer holds 8 copies of delta and
\* a step leaves curfan (and the buffer) as it found them.
C18_TrendSaturation ==
    [][(Completes /\ cycle >= TrendLen + 1
          /\ curpower.val * Scale - PassiveWatts * Scale - cpu_power_level >= 0) =>
         /\ \A i \in 1..TrendLen :
              Len(data) * thrend[i] = Sum(data) * Scale - Len(data) * TargetTemp * Scale
         /\ curfan' = curfan
         /\ thrend' = thrend]_vars

\* Ten cycles at eight cores of 56: the fan stopped at 12.25, short of any
\* clamp, with the buffer full of delta = 1.
C18_Witness ==
    /\ AfterStep
    /\ cycle = TrendLen + 2
    /\ data = [i \in 1..NCores |-> 56]
    /\ \A i \in 1..TrendLen : thrend[i] = Scale
    /\ 4 * curfan = 49 * Scale


\* The readings of the last response: values of the digit runs of three or
\* more digits followed by " RPM".
RpmReadings ==
    {DigitsToInt(fan_out[i].digits) :
       i \in {j \in DOMAIN fan_out :
                Len(fan_out[j].digits) >= 3 /\ fan_out[j].unit = "RPM"}}

\* C16: get_fan_speed returns the numerically largest RPM reading of the
\* response, whatever the digit counts of the readings, and 0 when there is
\* none.
C16_LargestRpm ==
    (Len(sent) >= 2 /\ Last(sent) = FanQueryCmd(TRUE)) =>
      IF RpmReadings = {} THEN fan_speed = 0
      ELSE /\ fan_speed \in RpmReadings
           /\ \A v \in RpmReadings : v <= fan_speed


\* Every division of the model is exact for the inputs explored: the trend
\* entries divide by 8 and then by 2, the power term by 10.
ExactArithmetic ==
    /\ prev % 16 = 0
    /\ \A i \in DOMAIN thrend : thrend[i] % 16 = 0
    /\ cpu_power_level % 10 = 0
    /\ (Scale * 16) % 10 = 0

====
